---- MODULE Spec2Model ----
(***************************************************************************)
(* Strided copy (copy.rs) and strided plane rotation (drot.rs).            *)
(*                                                                         *)
(* One behaviour of the model is one call: Init draws the arguments, the   *)
(* entry action runs the checks at the top of the function, and every      *)
(* further action is one iteration of one of the two loops or the return   *)
(* that follows it.  Buffers are sequences; the element at the zero-based  *)
(* physical index p of a buffer b is b[p + 1].  f64 values are modelled by *)
(* integers, on which the products and sums of the rotation are exact.     *)
(* usize is modelled UsizeBits wide.  A Rust build either checks integer   *)
(* overflow (and panics) or wraps it around; both outcomes are modelled.   *)
(***************************************************************************)
EXTENDS Integers, Sequences, FiniteSets, TLC

VARIABLES op, n, incx, incy, c, s, x0, y0, x, y, pc, i, ix, iy, ret, fault,
          wrapped, touched

vars == <<op, n, incx, incy, c, s, x0, y0, x, y, pc, i, ix, iy, ret, fault,
          wrapped, touched>>

(* Bounds of the model. *)
MaxN == 3
MaxNeg == 1
MaxInc == 2
MaxLen == 5
UsizeBits == 6

UsizeModulus == 2 ^ UsizeBits

(* v as usize *)
AsUsize(v) == v % UsizeModulus

InUsize(v) == v >= 0 /\ v < UsizeModulus

At(buf, p) == buf[p + 1]

Put(buf, p, v) == [buf EXCEPT ![p + 1] = v]

(* utils::check_inc, as section 4.1 of the specification states it. *)
check_inc(nn, len, inc) ==
    \/ nn <= 0
    \/ len >= 1 + (nn - 1) * (IF inc < 0 THEN -inc ELSE inc)

(* utils::get_first_index, as section 4.1 of the specification states it. *)
get_first_index(n_usize, inc) ==
    IF inc < 0 THEN AsUsize((n_usize - 1) * (-inc)) ELSE 0

(* ------------------------------- copy -------------------------------- *)

(* Mutant: the source view is not validated. *)
CopyValidOnlyY(nn, lx, sx, ly, sy) == check_inc(nn, ly, sy)

CopyValid(nn, lx, sx, ly, sy) == check_inc(nn, lx, sx) /\ check_inc(nn, ly, sy)

CopyIncAbs(inc) == IF inc > 0 THEN AsUsize(inc) ELSE AsUsize(-inc)

(* Mutant: every element of y receives the first element of x. *)
CopyFastBodyFirst(yy, xx, j) == Put(yy, j, At(xx, 0))

CopyFastBody(yy, xx, j) == Put(yy, j, At(xx, j))

CopyGeneralBody(yy, xx, cx, cy) == Put(yy, cy, At(xx, cx))

(* Mutant: the sign of the stride is ignored. *)
CopyAdvanceUp(cur, inc, abs) == cur + abs

(* The value of the new cursor before it is stored in a usize. *)
CopyAdvance(cur, inc, abs) == IF inc > 0 THEN cur + abs ELSE cur - abs

CopyEntry ==
    /\ pc = "entry" /\ op = "copy"
    /\ IF ~CopyValid(n, Len(x), incx, Len(y), incy)
       THEN /\ pc' = "done" /\ ret' = "false"
            /\ UNCHANGED <<ix, iy>>
       ELSE IF incx = 1 /\ incy = 1
       THEN /\ pc' = "fast"
            /\ UNCHANGED <<ret, ix, iy>>
       ELSE /\ pc' = "general"
            /\ ix' = get_first_index(AsUsize(n), incx)
            /\ iy' = get_first_index(AsUsize(n), incy)
            /\ UNCHANGED ret
    /\ UNCHANGED <<op, n, incx, incy, c, s, x0, y0, x, y, i, fault, wrapped,
                   touched>>

CopyFastStep ==
    /\ pc = "fast" /\ op = "copy" /\ i < AsUsize(n)
    /\ touched' = TRUE
    /\ IF i < Len(x) /\ i < Len(y)
       THEN /\ y' = CopyFastBody(y, x, i)
            /\ i' = i + 1
            /\ UNCHANGED <<pc, fault>>
       ELSE /\ pc' = "panic" /\ fault' = "index"
            /\ UNCHANGED <<y, i>>
    /\ UNCHANGED <<op, n, incx, incy, c, s, x0, y0, x, ix, iy, ret, wrapped>>

CopyFastReturn ==
    /\ pc = "fast" /\ op = "copy" /\ i = AsUsize(n)
    /\ pc' = "done" /\ ret' = "true"
    /\ UNCHANGED <<op, n, incx, incy, c, s, x0, y0, x, y, i, ix, iy, fault,
                   wrapped, touched>>

CopyGeneralStep ==
    /\ pc = "general" /\ op = "copy" /\ i < AsUsize(n)
    /\ touched' = TRUE
    /\ IF ix < Len(x) /\ iy < Len(y)
       THEN LET nx == CopyAdvance(ix, incx, CopyIncAbs(incx))
                ny == CopyAdvance(iy, incy, CopyIncAbs(incy))
            IN  /\ y' = CopyGeneralBody(y, x, ix, iy)
                /\ IF InUsize(nx) /\ InUsize(ny)
                   THEN /\ ix' = nx /\ iy' = ny /\ i' = i + 1
                        /\ UNCHANGED <<pc, fault, wrapped>>
                   ELSE \E checks \in BOOLEAN :
                          IF checks
                          THEN /\ pc' = "panic" /\ fault' = "overflow"
                               /\ UNCHANGED <<ix, iy, i, wrapped>>
                          ELSE /\ ix' = AsUsize(nx) /\ iy' = AsUsize(ny)
                               /\ i' = i + 1 /\ wrapped' = TRUE
                               /\ UNCHANGED <<pc, fault>>
       ELSE /\ pc' = "panic" /\ fault' = "index"
            /\ UNCHANGED <<y, i, ix, iy, wrapped>>
    /\ UNCHANGED <<op, n, incx, incy, c, s, x0, y0, x, ret>>

CopyGeneralReturn ==
    /\ pc = "general" /\ op = "copy" /\ i = AsUsize(n)
    /\ pc' = "done" /\ ret' = "true"
    /\ UNCHANGED <<op, n, incx, incy, c, s, x0, y0, x, y, i, ix, iy, fault,
                   wrapped, touched>>

(* ------------------------------- drot -------------------------------- *)

(* Mutant: the identity rotation is not short-circuited. *)
DrotEarlyExitOnlyN(nn, cc, ss) == nn <= 0

DrotEarlyExit(nn, cc, ss) == nn <= 0 \/ (cc = 1 /\ ss = 0)

DrotTooShort(nn, len, inc) ==
    \/ inc > 0 /\ len < 1 + (AsUsize(nn) - 1) * AsUsize(inc)
    \/ inc < 0 /\ len < 1 + (AsUsize(nn) - 1) * AsUsize(-inc)

DrotIncAbs(inc) == IF inc < 0 THEN AsUsize(-inc) ELSE AsUsize(inc)

DrotFirstIndex(n_usize, inc) ==
    IF inc < 0 THEN AsUsize(-inc) * (n_usize - 1) ELSE 0

DrotTemp(cc, ss, xi, yi) == cc * xi + ss * yi

DrotNewY(cc, ss, xi, yi) == cc * yi - ss * xi

DrotAdvance(cur, inc, abs) == IF inc > 0 THEN cur + abs ELSE cur - abs

DrotEntry ==
    /\ pc = "entry" /\ op = "drot"
    /\ IF DrotEarlyExit(n, c, s)
       THEN /\ pc' = "done" /\ ret' = "true"
            /\ UNCHANGED <<ix, iy>>
       ELSE IF DrotTooShort(n, Len(x), incx) \/ DrotTooShort(n, Len(y), incy)
       THEN /\ pc' = "done" /\ ret' = "false"
            /\ UNCHANGED <<ix, iy>>
       ELSE IF incx = 1 /\ incy = 1
       THEN /\ pc' = "fast"
            /\ UNCHANGED <<ret, ix, iy>>
       ELSE /\ pc' = "general"
            /\ ix' = DrotFirstIndex(AsUsize(n), incx)
            /\ iy' = DrotFirstIndex(AsUsize(n), incy)
            /\ UNCHANGED ret
    /\ UNCHANGED <<op, n, incx, incy, c, s, x0, y0, x, y, i, fault, wrapped,
                   touched>>

DrotFastStep ==
    /\ pc = "fast" /\ op = "drot" /\ i < AsUsize(n)
    /\ touched' = TRUE
    /\ IF i < Len(x) /\ i < Len(y)
       THEN /\ y' = Put(y, i, DrotNewY(c, s, At(x, i), At(y, i)))
            /\ x' = Put(x, i, DrotTemp(c, s, At(x, i), At(y, i)))
            /\ i' = i + 1
            /\ UNCHANGED <<pc, fault>>
       ELSE /\ pc' = "panic" /\ fault' = "index"
            /\ UNCHANGED <<x, y, i>>
    /\ UNCHANGED <<op, n, incx, incy, c, s, x0, y0, ix, iy, ret, wrapped>>

DrotFastReturn ==
    /\ pc = "fast" /\ op = "drot" /\ i = AsUsize(n)
    /\ pc' = "done" /\ ret' = "true"
    /\ UNCHANGED <<op, n, incx, incy, c, s, x0, y0, x, y, i, ix, iy, fault,
                   wrapped, touched>>

DrotGeneralStep ==
    /\ pc = "general" /\ op = "drot" /\ i < AsUsize(n)
    /\ touched' = TRUE
    /\ IF ix < Len(x) /\ iy < Len(y)
       THEN LET nx == DrotAdvance(ix, incx, DrotIncAbs(incx))
                ny == DrotAdvance(iy, incy, DrotIncAbs(incy))
            IN  /\ y' = Put(y, iy, DrotNewY(c, s, At(x, ix), At(y, iy)))
                /\ x' = Put(x, ix, DrotTemp(c, s, At(x, ix), At(y, iy)))
                /\ IF InUsize(nx) /\ InUsize(ny)
                   THEN /\ ix' = nx /\ iy' = ny /\ i' = i + 1
                        /\ UNCHANGED <<pc, fault, wrapped>>
                   ELSE \E checks \in BOOLEAN :
                          IF checks
                          THEN /\ pc' = "panic" /\ fault' = "overflow"
                               /\ UNCHANGED <<ix, iy, i, wrapped>>
                          ELSE /\ ix' = AsUsize(nx) /\ iy' = AsUsize(ny)
                               /\ i' = i + 1 /\ wrapped' = TRUE
                               /\ UNCHANGED <<pc, fault>>
       ELSE /\ pc' = "panic" /\ fault' = "index"
            /\ UNCHANGED <<x, y, i, ix, iy, wrapped>>
    /\ UNCHANGED <<op, n, incx, incy, c, s, x0, y0, ret>>

DrotGeneralReturn ==
    /\ pc = "general" /\ op = "drot" /\ i = AsUsize(n)
    /\ pc' = "done" /\ ret' = "true"
    /\ UNCHANGED <<op, n, incx, incy, c, s, x0, y0, x, y, i, ix, iy, fault,
                   wrapped, touched>>

(* --------------------- the loops, run to their end -------------------- *)

(* How a call that has ended came out: its return value, or its panic. *)
Outcome == IF pc = "done" THEN ret ELSE fault

RECURSIVE CopyFastRun(_, _, _, _)
(* The contiguous loop of copy from iteration j on. *)
CopyFastRun(j, n_usize, xx, yy) ==
    IF j = n_usize THEN [x |-> xx, y |-> yy, out |-> "true"]
    ELSE IF ~(j < Len(xx) /\ j < Len(yy))
    THEN [x |-> xx, y |-> yy, out |-> "index"]
    ELSE CopyFastRun(j + 1, n_usize, xx, CopyFastBody(yy, xx, j))

RECURSIVE CopyGeneralRun(_, _, _, _, _, _, _, _)
(* The cursor loop of copy from iteration j on, the cursors at cx and cy. *)
CopyGeneralRun(j, n_usize, xx, yy, cx, cy, sx, sy) ==
    IF j = n_usize THEN [x |-> xx, y |-> yy, out |-> "true"]
    ELSE IF ~(cx < Len(xx) /\ cy < Len(yy))
    THEN [x |-> xx, y |-> yy, out |-> "index"]
    ELSE LET nx == CopyAdvance(cx, sx, CopyIncAbs(sx))
             ny == CopyAdvance(cy, sy, CopyIncAbs(sy))
             wy == CopyGeneralBody(yy, xx, cx, cy)
         IN  IF ~(InUsize(nx) /\ InUsize(ny))
             THEN [x |-> xx, y |-> wy, out |-> "overflow"]
             ELSE CopyGeneralRun(j + 1, n_usize, xx, wy, nx, ny, sx, sy)

RECURSIVE DrotGeneralRun(_, _, _, _, _, _, _, _)
(* The cursor loop of drot from iteration j on, the cursors at cx and cy. *)
DrotGeneralRun(j, n_usize, xx, yy, cx, cy, sx, sy) ==
    IF j = n_usize THEN [x |-> xx, y |-> yy, out |-> "true"]
    ELSE IF ~(cx < Len(xx) /\ cy < Len(yy))
    THEN [x |-> xx, y |-> yy, out |-> "index"]
    ELSE LET nx == DrotAdvance(cx, sx, DrotIncAbs(sx))
             ny == DrotAdvance(cy, sy, DrotIncAbs(sy))
             wy == Put(yy, cy, DrotNewY(c, s, At(xx, cx), At(yy, cy)))
             wx == Put(xx, cx, DrotTemp(c, s, At(xx, cx), At(yy, cy)))
         IN  IF ~(InUsize(nx) /\ InUsize(ny))
             THEN [x |-> wx, y |-> wy, out |-> "overflow"]
             ELSE DrotGeneralRun(j + 1, n_usize, wx, wy, nx, ny, sx, sy)

(* ------------------------------ the calls ----------------------------- *)

XBuf(len) == [p \in 1 .. len |-> p]

YBuf(len, kind) == [p \in 1 .. len |-> kind * (10 * p)]

Coefs == {<<1, 0>>, <<0, 1>>, <<1, 1>>, <<2, 1>>}

Init ==
    /\ op \in {"copy", "drot"}
    /\ n \in (0 - MaxNeg) .. MaxN
    /\ incx \in (0 - MaxInc) .. MaxInc
    /\ incy \in (0 - MaxInc) .. MaxInc
    /\ \E cs \in Coefs : c = cs[1] /\ s = cs[2]
    /\ (op = "copy" => (c = 1 /\ s = 0))
    /\ \E lx \in 0 .. MaxLen : x0 = XBuf(lx)
    /\ \E ly \in 0 .. MaxLen, kind \in {0, 1} : y0 = YBuf(ly, kind)
    /\ x = x0 /\ y = y0
    /\ pc = "entry"
    /\ i = 0 /\ ix = 0 /\ iy = 0
    /\ ret = "none" /\ fault = "none"
    /\ wrapped = FALSE /\ touched = FALSE

Next ==
    \/ CopyEntry
    \/ CopyFastStep
    \/ CopyFastReturn
    \/ CopyGeneralStep
    \/ CopyGeneralReturn
    \/ DrotEntry
    \/ DrotFastStep
    \/ DrotFastReturn
    \/ DrotGeneralStep
    \/ DrotGeneralReturn

Spec == Init /\ [][Next]_vars

(* ------------------------- what the claims name ----------------------- *)

Abs(v) == IF v < 0 THEN -v ELSE v

(* Physical position of logical element j of a view of nn elements. *)
Phys(j, inc, nn) == IF inc >= 0 THEN j * inc ELSE (nn - 1 - j) * (-inc)

(* Elements a view of nn elements with stride inc needs. *)
Need(nn, inc) == 1 + (nn - 1) * Abs(inc)

Fits == Len(x0) >= Need(n, incx) /\ Len(y0) >= Need(n, incy)

Ended == pc \in {"done", "panic"}

Logical == 0 .. (n - 1)

(* The last logical element of a view that lies at physical position p. *)
LastAt(p, inc) ==
    CHOOSE j \in Logical :
        /\ Phys(j, inc, n) = p
        /\ \A j2 \in Logical : Phys(j2, inc, n) = p => j2 <= j

Hit(p, inc) == \E j \in Logical : Phys(j, inc, n) = p

(* y0 with, for logical i = 0, 1, ..., n-1 in turn, the element at y's      *)
(* position of i replaced by the element of x0 at x's position of i.        *)
CopyExpected ==
    [p \in 1 .. Len(y0) |->
        IF Hit(p - 1, incy)
        THEN At(x0, Phys(LastAt(p - 1, incy), incx, n))
        ELSE y0[p]]

(* C1: a copy call with n >= 1 and buffers that pass validation returns     *)
(* true, leaves in y the old y with the n logical elements of x copied to   *)
(* y's n logical positions, and leaves x as it was, for strides of any      *)
(* sign.                                                                    *)
C1_CopyReturnsTrueAndCopies ==
    (op = "copy" /\ n >= 1 /\ Fits /\ Ended)
        => (ret = "true" /\ y = CopyExpected /\ x = x0)

(* C2: a copy call with n <= 0 returns true, runs no loop iteration,        *)
(* accesses no buffer element and leaves y as it was, whatever the strides  *)
(* and the buffer lengths.                                                  *)
C2_CopyNonPositiveIsNoOp ==
    (op = "copy" /\ n <= 0)
        => /\ i = 0 /\ ~touched /\ y = y0
           /\ pc # "panic"
           /\ (pc = "done" => ret = "true")

(* C3: a copy call with n >= 1 and x or y shorter than its view needs       *)
(* returns false without any access to either buffer: y and x are as they   *)
(* were.                                                                    *)
C3_CopyRejectsShortBuffers ==
    (op = "copy" /\ n >= 1 /\ ~Fits /\ pc # "entry")
        => /\ pc = "done" /\ ret = "false"
           /\ ~touched /\ y = y0 /\ x = x0

(* The source alone is too short; the destination would have passed. *)
C3_Witness ==
    /\ op = "copy" /\ n >= 2 /\ pc = "done" /\ ret = "false"
    /\ Len(x0) < Need(n, incx) /\ Len(y0) >= Need(n, incy)
    /\ Len(y0) > 0 /\ incx < 0

(* x0 and y0 rotated at the logical positions of the two views, each new    *)
(* value computed from the two values held before the call.                 *)
DrotExpectedX ==
    [p \in 1 .. Len(x0) |->
        IF Hit(p - 1, incx)
        THEN c * x0[p] + s * At(y0, Phys(LastAt(p - 1, incx), incy, n))
        ELSE x0[p]]

DrotExpectedY ==
    [p \in 1 .. Len(y0) |->
        IF Hit(p - 1, incy)
        THEN c * y0[p] - s * At(x0, Phys(LastAt(p - 1, incy), incx, n))
        ELSE y0[p]]

(* C4: a drot call with c = 1 and s = 0 returns true at once, with no       *)
(* access to x or y and both as they were, whatever n, the strides and the  *)
(* buffer lengths (buffers too short for n included).                       *)
C4_DrotIdentityIsNoOp ==
    (op = "drot" /\ c = 1 /\ s = 0 /\ pc # "entry")
        => /\ pc = "done" /\ ret = "true"
           /\ ~touched /\ x = x0 /\ y = y0

(* The identity rotation has returned true on buffers too short for n. *)
C4_Witness ==
    /\ op = "drot" /\ c = 1 /\ s = 0 /\ pc = "done" /\ ret = "true"
    /\ n >= 2 /\ incx # 0 /\ incy # 0
    /\ Len(x0) < Need(n, incx) /\ Len(y0) < Need(n, incy)

(* C5: a drot call with incx = 0 or incy = 0 returns true at once, with no  *)
(* read or write of an element of x or y, whatever n, c, s and the buffer   *)
(* lengths.                                                                 *)
C5_DrotZeroStrideReturnsAtOnce ==
    (op = "drot" /\ (incx = 0 \/ incy = 0) /\ pc # "entry")
        => /\ pc = "done" /\ ret = "true"
           /\ ~touched /\ x = x0 /\ y = y0

(* C6: a drot call with n >= 1, nonzero strides, (c, s) # (1, 0) and        *)
(* buffers that pass validation returns true, with c*xi + s*yi and          *)
(* c*yi - s*xi at the n logical positions of x and y (xi, yi the values     *)
(* before the call) and every other element as it was.                      *)
C6_DrotReturnsTrueAndRotates ==
    (/\ op = "drot" /\ n >= 1 /\ incx # 0 /\ incy # 0
     /\ ~(c = 1 /\ s = 0) /\ Fits /\ Ended)
        => (ret = "true" /\ x = DrotExpectedX /\ y = DrotExpectedY)

(* C7: a drot call with n >= 1, (c, s) # (1, 0) and x or y shorter than its *)
(* view needs (at least one element when the stride is 0) returns false     *)
(* with x and y as they were, and never indexes outside a buffer.           *)
C7_DrotRejectsShortBuffers ==
    (op = "drot" /\ n >= 1 /\ ~(c = 1 /\ s = 0) /\ ~Fits)
        => /\ fault = "none" /\ x = x0 /\ y = y0
           /\ (pc = "done" => ret = "false")

(* C8: in the general path of copy and of drot, on buffers that passed      *)
(* validation and n >= 1, no cursor update leaves the range of the unsigned *)
(* index type, the update after the n-th element included.                  *)
C8_CursorsStayInRange ==
    (n >= 1 /\ Fits) => (fault # "overflow" /\ ~wrapped)

(* C9: in the general path of copy and of drot, with n >= 1 and nonzero     *)
(* strides, at loop step k each cursor is the physical position of logical  *)
(* element k of its own view.                                               *)
C9_CursorIsPhysicalPosition ==
    (pc = "general" /\ n >= 1 /\ incx # 0 /\ incy # 0 /\ i < n)
        => (ix = Phys(i, incx, n) /\ iy = Phys(i, incy, n))

(* Both operations are past their first general step, on views of opposite  *)
(* direction and different stride.                                          *)
C9_Witness ==
    /\ pc = "general" /\ n >= 3 /\ i = 2
    /\ incx < 0 /\ incy > 1 /\ incx # -incy
    /\ ix = -incx * (n - 3) /\ iy = 2 * incy

====
